---- MODULE Spec2Model ----
(***************************************************************************)
(* Model of pkg/search/backendstore/opensearch.go: the OpenSearch backend  *)
(* store of karmada-search.  Each OpenSearch instance (one per source      *)
(* cluster) owns a memo of index names (os.indices) guarded by a mutex     *)
(* (os.l); the informer's worker threads call AddFunc / UpdateFunc /       *)
(* DeleteFunc, which run upsert / delete synchronously.  The OpenSearch    *)
(* server is the environment: it holds indices ("collections") and         *)
(* documents and answers every request with success or with an error.      *)
(***************************************************************************)
EXTENDS Naturals, Sequences, FiniteSets, TLC

(* ------------------------------ bounds -------------------------------- *)

\* Total number of events the watch layer delivers in one behaviour.
MaxEvents == 2

\* The informer worker threads that deliver events concurrently.
Threads == {"w1", "w2"}

(* ------------------------------ strings ------------------------------- *)

UpperCase == <<"A","B","C","D","E","F","G","H","I","J","K","L","M",
               "N","O","P","Q","R","S","T","U","V","W","X","Y","Z">>
LowerCase == <<"a","b","c","d","e","f","g","h","i","j","k","l","m",
               "n","o","p","q","r","s","t","u","v","w","x","y","z">>

\* strings.ToLower on one character.
ToLowerChar(c) ==
  IF \E i \in DOMAIN UpperCase : UpperCase[i] = c
  THEN LowerCase[CHOOSE i \in DOMAIN UpperCase : UpperCase[i] = c]
  ELSE c

\* strings.ToLower: a string is a sequence of characters.
ToLower(s) == [i \in DOMAIN s |-> ToLowerChar(s[i])]

\* var defaultPrefix = "kubernetes"
defaultPrefix == <<"k","u","b","e","r","n","e","t","e","s">>

\* clusterv1alpha1.CacheSourceAnnotationKey
CacheSourceAnnotationKey == "resourcecache.karmada.io/source-cluster"

(* ------------------------------ inputs -------------------------------- *)

\* Source clusters; one OpenSearch instance is constructed per cluster.
Clusters == {"member-a", "member-b"}

\* Kinds delivered by the watch layer ("POD" differs from "Pod" in case only).
Kinds == { <<"P","o","d">>, <<"P","O","D">>, <<"J","o","b">> }

UIDs == {"u1", "u2"}

\* A map[string]string is a set of <<key, value>> pairs with unique keys.
NilMap == [isNil |-> TRUE, kv |-> {}]
MakeMap(pairs) == [isNil |-> FALSE, kv |-> pairs]

\* The variable part of a delivered object: its annotations (none at all, or
\* a provenance annotation left by somebody else) and us.Object["spec"]
\* (absent, or some value).
Contents ==
  { [annotations |-> NilMap, spec |-> "nil"],
    [annotations |-> MakeMap({<<CacheSourceAnnotationKey, "stale">>}),
     spec |-> "replicas:1"] }

\* Every object the model can build from the kinds, uids and contents.
AllObjects ==
  { [type |-> "Unstructured", kind |-> k, uid |-> u, name |-> "p1",
     namespace |-> "ns1", annotations |-> c.annotations, spec |-> c.spec,
     status |-> "nil"] : k \in Kinds, u \in UIDs, c \in Contents }

\* What the handlers receive: an *unstructured.Unstructured, or something
\* else.  The Pod u1 comes with every content, the Pod u2 with one; the other
\* kinds with one uid and content.
Objects ==
  { o \in AllObjects :
      \/ (o.kind = <<"P","o","d">> /\ (o.uid = "u1" \/ o.spec # "nil"))
      \/ (o.uid = "u1" /\ o.spec = "nil") }
NotUnstructured == [type |-> "string"]
NoObject == [type |-> "none"]
Payloads == Objects \cup {NotUnstructured}

\* An index name that takes the kind as it is written.
FormatName_rawKind(kind) == defaultPrefix \o <<"-">> \o kind

\* fmt.Sprintf("%s-%s", defaultPrefix, strings.ToLower(us.GetKind()))
FormatName(kind) == defaultPrefix \o <<"-">> \o ToLower(kind)

Names == { FormatName(k) : k \in Kinds }
NoName == <<>>


(* --------------------------- document normalizer ---------------------- *)

\* m[k] = v on a map[string]string.
MapPut(kv, k, v) == {p \in kv : p[1] # k} \cup {<<k, v>>}

\* Mutant of SetAnnotations: an existing provenance annotation is kept.
SetAnnotations_keepExisting(obj, cluster) ==
  IF \E p \in obj.annotations.kv : p[1] = CacheSourceAnnotationKey
  THEN obj
  ELSE [obj EXCEPT !.annotations =
          MakeMap(obj.annotations.kv \cup {<<CacheSourceAnnotationKey, cluster>>})]

\* upsert, lines 174-180: make the annotation map when it is nil, set the
\* provenance annotation to os.cluster, store the map in the object.
SetAnnotations(obj, cluster) ==
  [obj EXCEPT !.annotations =
     MakeMap(MapPut(obj.annotations.kv, CacheSourceAnnotationKey, cluster))]

\* A copy that is the delivered object itself.
DeepCopy_alias(us) == [shares |-> TRUE, val |-> us]

\* upsert, line 173: us.DeepCopy() has the value of the delivered object and
\* shares no storage with it.
DeepCopy(us) == [shares |-> FALSE, val |-> us]

\* upsert, lines 173-180, seen from the watch layer: the delivered object
\* after us.SetAnnotations has written through us.
DeliveredAfterSetAnnotations(obj, us, cluster) ==
  IF us.shares THEN SetAnnotations(us.val, cluster) ELSE obj

\* json.Marshal of a payload section, kept as text: nil marshals to "null".
Marshal(v) == IF v = "nil" THEN "null" ELSE "{" \o v \o "}"

\* upsert, lines 182-198: the document built from the private copy.
Doc(us) ==
  [kind        |-> us.kind,
   name        |-> us.name,
   namespace   |-> us.namespace,
   annotations |-> us.annotations,
   spec        |-> Marshal(us.spec),
   status      |-> Marshal(us.status)]

\* Mutant of IndexRequest: the document is keyed by the object's name.
IndexRequest_byName(indexName, us) ==
  [Index |-> indexName, DocumentID |-> us.name, Body |-> Doc(us)]

\* opensearchapi.IndexRequest built by upsert, lines 212-216.
IndexRequest(indexName, us) ==
  [Index |-> indexName, DocumentID |-> us.uid, Body |-> Doc(us)]

\* A delete request that names the index by the kind as it is written.
DeleteRequest_rawKind(indexName, us) ==
  [Index |-> defaultPrefix \o <<"-">> \o us.kind, DocumentID |-> us.uid]

\* Mutant of DeleteRequest: the document is looked up by the object's name.
DeleteRequest_byName(indexName, us) ==
  [Index |-> indexName, DocumentID |-> us.name]

\* opensearchapi.DeleteRequest built by delete, lines 152-155.
DeleteRequest(indexName, us) ==
  [Index |-> indexName, DocumentID |-> us.uid]

(* ---------------------------- construction --------------------------- *)

\* *v1alpha1.BackendStoreConfig as NewOpenSearch can receive it: nil, without
\* its OpenSearch part, or with addresses (none or one) and a secret reference
\* whose namespace and name are each empty or set.
NoSecretRef == [Namespace |-> "", Name |-> ""]
NilOpenSearchConfig ==
  [isNil |-> TRUE, Addresses |-> <<>>, SecretRef |-> NoSecretRef]
NilBackendStoreConfig == [isNil |-> TRUE, OpenSearch |-> NilOpenSearchConfig]

BackendStoreConfigs ==
  {NilBackendStoreConfig, [isNil |-> FALSE, OpenSearch |-> NilOpenSearchConfig]}
  \cup {[isNil |-> FALSE,
         OpenSearch |-> [isNil |-> FALSE, Addresses |-> a,
                         SecretRef |-> [Namespace |-> ns, Name |-> n]]] :
          a \in {<<>>, <<"https://opensearch:9200">>},
          ns \in {"", "karmada-system"}, n \in {"", "opensearch-auth"}}

\* What the world answers when initClient asks: the secret store to the
\* lookup of line 277 (an error with the empty Secret the typed client hands
\* back, or the secret's data), opensearch.NewClient and client.Info.
SecretAnswers ==
  {[err |-> TRUE, username |-> "", password |-> ""],
   [err |-> FALSE, username |-> "admin", password |-> "s3cret"],
   [err |-> FALSE, username |-> "", password |-> "s3cret"]}

Environments ==
  [Get : SecretAnswers, NewClient : {"ok", "err"}, Info : {"ok", "err"}]

\* A lookup that falls back to a default account when the lookup fails.
ResolveSecret_defaultUser(secretRef, env) ==
  IF secretRef.Namespace = "" \/ secretRef.Name = ""
  THEN [user |-> "", pwd |-> "", calls |-> <<>>]
  ELSE IF env.Get.err
  THEN [user |-> "admin", pwd |-> "admin", calls |-> <<"Secrets.Get">>]
  ELSE [user |-> env.Get.username, pwd |-> env.Get.password,
        calls |-> <<"Secrets.Get">>]

\* initClient, lines 271-283: the closure that resolves user and password.
\* No reference or a failed lookup gives the empty strings.
ResolveSecret(secretRef, env) ==
  IF secretRef.Namespace = "" \/ secretRef.Name = ""
  THEN [user |-> "", pwd |-> "", calls |-> <<>>]
  ELSE IF env.Get.err
  THEN [user |-> "", pwd |-> "", calls |-> <<"Secrets.Get">>]
  ELSE [user |-> env.Get.username, pwd |-> env.Get.password,
        calls |-> <<"Secrets.Get">>]

\* opensearch.Config before any field is set.
NoOpenSearchClientConfig ==
  [Addresses |-> <<>>, Username |-> "", Password |-> ""]

\* A config check that lets an empty address list through.
AddressesMissing_never(bsc) == FALSE

\* initClient, line 266.
AddressesMissing(bsc) == Len(bsc.OpenSearch.Addresses) = 0

\* initClient, lines 261-303.  calls lists the calls made outside the
\* process, client tells whether os.client was set.
initClient(bsc, env) ==
  IF bsc.isNil \/ bsc.OpenSearch.isNil
  THEN [err |-> "opensearch config is nil", calls |-> <<>>,
        cfg |-> NoOpenSearchClientConfig, built |-> FALSE, client |-> FALSE]
  ELSE IF AddressesMissing(bsc)
  THEN [err |-> "not found opensearch address", calls |-> <<>>,
        cfg |-> NoOpenSearchClientConfig, built |-> FALSE, client |-> FALSE]
  ELSE
    LET secret == ResolveSecret(bsc.OpenSearch.SecretRef, env)
        cfg == [Addresses |-> bsc.OpenSearch.Addresses,
                Username |-> IF secret.user # "" THEN secret.user ELSE "",
                Password |-> IF secret.user # "" THEN secret.pwd ELSE ""]
    IN IF env.NewClient = "err"
       THEN [err |-> "cannot create opensearch client", calls |-> secret.calls,
             cfg |-> cfg, built |-> FALSE, client |-> FALSE]
       ELSE IF env.Info = "err"
       THEN [err |-> "cannot get opensearch info",
             calls |-> secret.calls \o <<"Info">>,
             cfg |-> cfg, built |-> TRUE, client |-> FALSE]
       ELSE [err |-> "nil", calls |-> secret.calls \o <<"Info">>,
             cfg |-> cfg, built |-> TRUE, client |-> TRUE]

(* ------------------------------- state -------------------------------- *)

VARIABLES
  indices,      \* os.indices of each instance: the memo of index names
  l,            \* os.l of each instance: the thread holding it, if any
  pc,           \* where each worker thread is
  th,           \* the handler invocation each thread runs (or ran last)
  collections,  \* backend: names of the indices that exist
  documents,    \* backend: the stored documents
  lastUpsert,   \* history: per (index, uid) the last acknowledged upsert
  created,      \* history: per index name, the creation calls that created it
  delivered,    \* number of events delivered so far
  event,        \* what the watch layer handed to each thread's handler
  startup       \* a call of NewOpenSearch: its arguments and what it returned

vars ==
  <<indices, l, pc, th, collections, documents, lastUpsert, created, delivered,
    event, startup>>

Unlocked == "unlocked"

\* The invocation record of a thread that has run no handler yet.
NoCall ==
  [os |-> "none", op |-> "none", obj |-> NoObject, us |-> NoObject,
   indexName |-> NoName, err |-> "none", create |-> "none",
   memoHit |-> FALSE, existed |-> FALSE, resp |-> "none", hadDoc |-> FALSE,
   result |-> "none", prevFailed |-> "none"]

\* NewOpenSearch, lines 107-118: the memo is empty, the mutex unlocked.
NewOpenSearch(cluster) == [cluster |-> cluster, indices |-> {}, l |-> Unlocked]

\* No event is being handed over.
NoEvent == [handler |-> "none", old |-> NoObject, new |-> NoObject]

\* A call of NewOpenSearch(cluster, bsc) in a world env, not yet returned.
Called(cluster, bsc, env) ==
  [pc |-> "called", cluster |-> cluster, bsc |-> bsc, env |-> env,
   os |-> "none", err |-> "none", calls |-> <<>>,
   cfg |-> NoOpenSearchClientConfig, built |-> FALSE]

\* NewOpenSearch, lines 107-118, with initClient: the instance (or nil) and
\* the error it returns.
Returned(call) ==
  LET r == initClient(call.bsc, call.env)
  IN [call EXCEPT !.pc = "returned",
                  !.os = IF r.err # "nil" THEN "nil" ELSE call.cluster,
                  !.err = IF r.err # "nil" THEN "cannot init client: " \o r.err
                          ELSE "nil",
                  !.calls = r.calls, !.cfg = r.cfg, !.built = r.built]

\* The constructions that gave the instances of Init.
Started ==
  Returned(Called("member-a",
                  [isNil |-> FALSE,
                   OpenSearch |-> [isNil |-> FALSE,
                                   Addresses |-> <<"https://opensearch:9200">>,
                                   SecretRef |-> NoSecretRef]],
                  [Get |-> [err |-> TRUE, username |-> "", password |-> ""],
                   NewClient |-> "ok", Info |-> "ok"]))

\* The instances are fresh; the backend is empty, or it holds the indices an
\* earlier run of the process left behind.
Init ==
  /\ indices = [c \in Clusters |-> NewOpenSearch(c).indices]
  /\ l = [c \in Clusters |-> NewOpenSearch(c).l]
  /\ pc = [t \in Threads |-> "idle"]
  /\ th = [t \in Threads |-> NoCall]
  /\ collections \in {{}, Names}
  /\ documents = {}
  /\ lastUpsert = {}
  /\ created = [n \in Names |-> 0]
  /\ delivered = 0
  /\ event = [t \in Threads |-> NoEvent]
  /\ startup = Started


(* ------------------------------ backend ------------------------------- *)

\* The answers of the server to an IndicesCreateRequest for name: it creates
\* the index when there is none, reports "already exists" when there is one
\* (as an error of the call or as an error response), or fails otherwise.
IndicesCreateDo(name) ==
  (IF name \in collections
   THEN {"err: already exists", "resp: already exists"}
   ELSE {"created"})
  \cup {"err: other", "resp: other"}

\* The server applying an index request: the document of that id replaces
\* any document of the same id in the same index.
BackendIndex(docs, req, cluster) ==
  {d \in docs : ~(d.Index = req.Index /\ d.DocumentID = req.DocumentID)}
  \cup {[Index |-> req.Index, DocumentID |-> req.DocumentID,
         Body |-> req.Body, writer |-> cluster]}

\* The server applying a delete request: nothing happens when the index or
\* the document is missing.
BackendDelete(docs, req) ==
  {d \in docs : ~(d.Index = req.Index /\ d.DocumentID = req.DocumentID)}

\* The answers of the server to an index or a delete request.
RequestDo == {"ok", "err", "resp: error"}

(* ------------------------------ indexName ----------------------------- *)

\* indexName, lines 242-258: what the answer to the creation call makes of
\* the memo and of the returned error.
AfterCreate(memo, name, resp) ==
  CASE resp = "created" ->
         [err |-> "nil", indices |-> memo \cup {name}]
    [] resp = "err: already exists" ->
         [err |-> "nil", indices |-> memo \cup {name}]
    [] resp = "err: other" ->
         [err |-> "cannot create index", indices |-> memo]
    [] OTHER ->  \* resp.IsError(), line 250
         [err |-> "cannot create index", indices |-> memo]

\* Mutant of ReturnsAtOnce: the memo is never consulted, every call creates.
ReturnsAtOnce_never(memo, name) == FALSE

\* The test the other way round: a name that is in the memo is returned at
\* once, any other name goes to the creation call.
ReturnsAtOnce_whenMemoized(memo, name) == name \in memo

\* indexName, line 235: the condition under which indexName returns the name
\* at once, without a creation call.
ReturnsAtOnce(memo, name) == name \notin memo

\* An indexName that, returning at once, records every name it knows.
IndexNameReturns_memoizesAll(memo, name) ==
  {[err |-> "nil", indices |-> Names, create |-> "none",
    collections |-> collections]}

\* indexName, lines 235-258, with the mutex held: every way the call can
\* return for this memo and this state of the server.
IndexNameReturns(memo, name) ==
  IF ReturnsAtOnce(memo, name)
  THEN {[err |-> "nil", indices |-> memo, create |-> "none",
         collections |-> collections]}
  ELSE {[err |-> AfterCreate(memo, name, resp).err,
         indices |-> AfterCreate(memo, name, resp).indices,
         create |-> resp,
         collections |-> IF resp = "created" THEN collections \cup {name}
                         ELSE collections]
        : resp \in IndicesCreateDo(name)}

\* Mutant of Unlock: the deferred unlock is missing.
Unlock_missing(os) == l

\* defer os.l.Unlock(), line 233: the mutex once indexName has returned.
Unlock(os) == [l EXCEPT ![os] = Unlocked]


(* ------------------------------ handlers ------------------------------ *)

\* The log lines with which a handler gives up on a backend error.
BackendFailures ==
  {"cannot get index name", "cannot upsert", "upsert error", "cannot delete"}

\* History: the uid of the object whose event this thread handled last, when
\* that event was dropped on a backend error.
PrevFailed(t) ==
  IF th[t].result \in BackendFailures THEN th[t].obj.uid ELSE "none"

\* The handler returns to the watch layer: its locals are gone.
Return(t) ==
  /\ pc[t] = "return"
  /\ pc' = [pc EXCEPT ![t] = "idle"]
  /\ th' = [th EXCEPT ![t] = [NoCall EXCEPT !.prevFailed = PrevFailed(t)]]
  /\ event' = [event EXCEPT ![t] = NoEvent]
  /\ UNCHANGED <<indices, l, collections, documents, lastUpsert, created,
                 delivered, startup>>

\* A handler that asserts the type of its payload without a check: the
\* goroutine of the informer dies.
UnexpectedType_panics(t, os, op, obj) ==
  /\ th' = [th EXCEPT ![t] = [NoCall EXCEPT !.os = os, !.op = op, !.obj = obj,
                                !.result = "panic",
                                !.prevFailed = th[t].prevFailed]]
  /\ pc' = [pc EXCEPT ![t] = "panic"]
  /\ UNCHANGED <<indices, l, collections, documents, lastUpsert, created>>

\* A handler that returns at once: the payload is no *unstructured.Unstructured
\* (upsert lines 167-171, delete lines 140-144).
UnexpectedType(t, os, op, obj) ==
  /\ th' = [th EXCEPT ![t] = [NoCall EXCEPT !.os = os, !.op = op, !.obj = obj,
                                !.result = "unexpected type",
                                !.prevFailed = th[t].prevFailed]]
  /\ pc' = [pc EXCEPT ![t] = "return"]
  /\ UNCHANGED <<indices, l, collections, documents, lastUpsert, created>>

\* upsert, lines 166-206: type check, private copy with the provenance
\* annotation, document; then the call of indexName, which starts at Lock.
\* th[t].obj is the delivered object as the watch layer holds it, th[t].us
\* the copy the handler works on.
upsert(t, os, obj) ==
  IF obj.type # "Unstructured"
  THEN UnexpectedType(t, os, "upsert", obj)
  ELSE /\ th' = [th EXCEPT ![t] = [NoCall EXCEPT !.os = os, !.op = "upsert",
                                     !.obj = DeliveredAfterSetAnnotations(
                                               obj, DeepCopy(obj), os),
                                     !.us = SetAnnotations(DeepCopy(obj).val,
                                                           os),
                                     !.prevFailed = th[t].prevFailed]]
       /\ pc' = [pc EXCEPT ![t] = "Lock"]
       /\ UNCHANGED <<indices, l, collections, documents, lastUpsert, created>>

\* delete, lines 139-146: type check; then the call of indexName.
delete(t, os, obj) ==
  IF obj.type # "Unstructured"
  THEN UnexpectedType(t, os, "delete", obj)
  ELSE /\ th' = [th EXCEPT ![t] = [NoCall EXCEPT !.os = os, !.op = "delete",
                                     !.obj = obj, !.us = obj,
                                     !.prevFailed = th[t].prevFailed]]
       /\ pc' = [pc EXCEPT ![t] = "Lock"]
       /\ UNCHANGED <<indices, l, collections, documents, lastUpsert, created>>

\* The old values an update of curObj can carry: earlier states of the same
\* object.
OldObjects(curObj) ==
  IF curObj.type # "Unstructured" THEN {curObj}
  ELSE {o \in Objects : o.uid = curObj.uid /\ o.kind = curObj.kind}

\* An update handler that passes on the old value.
UpdateArgument_old(oldObj, curObj) == oldObj

\* ResourceEventHandlerFuncs, line 127: what UpdateFunc passes to upsert.
UpdateArgument(oldObj, curObj) == curObj

\* ResourceEventHandlerFuncs, lines 123-125.
AddFunc(t) ==
  /\ pc[t] = "idle" /\ delivered < MaxEvents
  /\ delivered' = delivered + 1
  /\ \E os \in Clusters, obj \in Payloads :
       /\ upsert(t, os, obj)
       /\ event' = [event EXCEPT ![t] = [handler |-> "AddFunc",
                                         old |-> NoObject, new |-> obj]]
  /\ UNCHANGED startup

\* ResourceEventHandlerFuncs, lines 126-128: oldObj is not used.
UpdateFunc(t) ==
  /\ pc[t] = "idle" /\ delivered < MaxEvents
  /\ delivered' = delivered + 1
  /\ \E os \in Clusters, curObj \in Payloads :
       \E oldObj \in OldObjects(curObj) :
         /\ upsert(t, os, UpdateArgument(oldObj, curObj))
         /\ event' = [event EXCEPT ![t] = [handler |-> "UpdateFunc",
                                           old |-> oldObj, new |-> curObj]]
  /\ UNCHANGED startup

\* ResourceEventHandlerFuncs, lines 129-131.
DeleteFunc(t) ==
  /\ pc[t] = "idle" /\ delivered < MaxEvents
  /\ delivered' = delivered + 1
  /\ \E os \in Clusters, obj \in Payloads :
       /\ delete(t, os, obj)
       /\ event' = [event EXCEPT ![t] = [handler |-> "DeleteFunc",
                                         old |-> NoObject, new |-> obj]]
  /\ UNCHANGED startup

\* An indexName that goes on without waiting for the mutex.
Lock_noWait(t) ==
  /\ pc[t] = "Lock"
  /\ l' = [l EXCEPT ![th[t].os] = t]
  /\ th' = [th EXCEPT ![t].indexName = FormatName(th[t].us.kind)]
  /\ pc' = [pc EXCEPT ![t] = "indexName"]
  /\ event' = [event EXCEPT ![t] = NoEvent]
  /\ UNCHANGED <<indices, collections, documents, lastUpsert, created,
                 delivered, startup>>

\* indexName, lines 231-232: the name is computed, then os.l.Lock() waits
\* for the mutex of the instance.
Lock(t) ==
  /\ pc[t] = "Lock"
  /\ l[th[t].os] = Unlocked
  /\ l' = [l EXCEPT ![th[t].os] = t]
  /\ th' = [th EXCEPT ![t].indexName = FormatName(th[t].us.kind)]
  /\ pc' = [pc EXCEPT ![t] = "indexName"]
  /\ event' = [event EXCEPT ![t] = NoEvent]
  /\ UNCHANGED <<indices, collections, documents, lastUpsert, created,
                 delivered, startup>>

\* indexName, lines 235-258, run with the mutex held, the deferred unlock, and
\* the caller's next lines: upsert 207-217 and delete 147-157 give up on an
\* error and send their request otherwise.
indexName(t) ==
  /\ pc[t] = "indexName"
  /\ l[th[t].os] = t
  /\ \E r \in IndexNameReturns(indices[th[t].os], th[t].indexName) :
       /\ indices' = [indices EXCEPT ![th[t].os] = r.indices]
       /\ collections' = r.collections
       /\ l' = Unlock(th[t].os)
       /\ created' = IF r.create = "created"
                     THEN [created EXCEPT ![th[t].indexName] = @ + 1]
                     ELSE created
       /\ th' = [th EXCEPT ![t].err = r.err,
                           ![t].create = r.create,
                           ![t].memoHit = th[t].indexName \in indices[th[t].os],
                           ![t].existed = th[t].indexName \in collections,
                           ![t].result = IF r.err = "nil" THEN "none"
                                         ELSE "cannot get index name"]
       /\ pc' = [pc EXCEPT ![t] =
                   IF r.err # "nil" THEN "return"
                   ELSE IF th[t].op = "upsert" THEN "IndexRequest"
                   ELSE "DeleteRequest"]
  /\ UNCHANGED <<documents, lastUpsert, delivered, event, startup>>

\* History: the acknowledged upsert recorded for (index, uid).
Acknowledged(t) ==
  [Index |-> th[t].indexName, uid |-> th[t].obj.uid, kind |-> th[t].obj.kind,
   spec |-> th[t].obj.spec, os |-> th[t].os]

Forget(hist, t) ==
  {e \in hist : ~(e.Index = th[t].indexName /\ e.uid = th[t].obj.uid)}

\* upsert, lines 217-227: the index request is answered.  A successful write
\* to an index that does not exist makes the server create it on the fly.
IndexRequestDo(t) ==
  /\ pc[t] = "IndexRequest"
  /\ \E resp \in RequestDo :
       /\ documents' =
            IF resp = "ok"
            THEN BackendIndex(documents,
                              IndexRequest(th[t].indexName, th[t].us), th[t].os)
            ELSE documents
       /\ collections' =
            IF resp = "ok" THEN collections \cup {th[t].indexName}
            ELSE collections
       /\ lastUpsert' =
            IF resp = "ok" THEN Forget(lastUpsert, t) \cup {Acknowledged(t)}
            ELSE lastUpsert
       /\ th' = [th EXCEPT ![t].resp = resp,
                           ![t].hadDoc =
                   \E d \in documents : /\ d.Index = th[t].indexName
                                        /\ d.DocumentID = th[t].obj.uid,
                           ![t].result =
                   CASE resp = "ok" -> "upsert response"
                     [] resp = "err" -> "cannot upsert"
                     [] OTHER -> "upsert error"]
  /\ pc' = [pc EXCEPT ![t] = "return"]
  /\ UNCHANGED <<indices, l, created, delivered, event, startup>>

\* A delete that sends its request again when the call fails.
DeleteRequestDo_retries(t) ==
  /\ pc[t] = "DeleteRequest"
  /\ \E resp \in RequestDo :
       /\ documents' =
            IF resp = "ok"
            THEN BackendDelete(documents,
                               DeleteRequest(th[t].indexName, th[t].us))
            ELSE documents
       /\ lastUpsert' = IF resp = "ok" THEN Forget(lastUpsert, t)
                        ELSE lastUpsert
       /\ th' = [th EXCEPT ![t].resp = resp,
                           ![t].hadDoc =
                   \E d \in documents : /\ d.Index = th[t].indexName
                                        /\ d.DocumentID = th[t].obj.uid,
                           ![t].result =
                   IF resp = "err" THEN "cannot delete" ELSE "delete response"]
       /\ pc' = [pc EXCEPT ![t] = IF resp = "err" THEN "DeleteRequest"
                                  ELSE "return"]
  /\ UNCHANGED <<indices, l, collections, created, delivered, event, startup>>

\* delete, lines 157-163: the delete request is answered; only an error of
\* the call is told apart, an error response is logged like a success.
DeleteRequestDo(t) ==
  /\ pc[t] = "DeleteRequest"
  /\ \E resp \in RequestDo :
       /\ documents' =
            IF resp = "ok"
            THEN BackendDelete(documents,
                               DeleteRequest(th[t].indexName, th[t].us))
            ELSE documents
       /\ lastUpsert' = IF resp = "ok" THEN Forget(lastUpsert, t)
                        ELSE lastUpsert
       /\ th' = [th EXCEPT ![t].resp = resp,
                           ![t].hadDoc =
                   \E d \in documents : /\ d.Index = th[t].indexName
                                        /\ d.DocumentID = th[t].obj.uid,
                           ![t].result =
                   IF resp = "err" THEN "cannot delete" ELSE "delete response"]
  /\ pc' = [pc EXCEPT ![t] = "return"]
  /\ UNCHANGED <<indices, l, collections, created, delivered, event, startup>>

\* Close, line 136: the body is empty; it can be called at any time.
Close(os) == UNCHANGED vars

Next ==
  \/ \E t \in Threads :
       \/ AddFunc(t)
       \/ UpdateFunc(t)
       \/ DeleteFunc(t)
       \/ Lock(t)
       \/ indexName(t)
       \/ IndexRequestDo(t)
       \/ DeleteRequestDo(t)
       \/ Return(t)
  \/ \E os \in Clusters : Close(os)

Spec == Init /\ [][Next]_vars

\* One informer calls the handlers it registered from a single goroutine, one
\* event at a time, and the handlers (lines 121-133) start no goroutine: the
\* next event is delivered when the handler of the last one has returned.
Informer == "w1"

SyncNext ==
  \/ AddFunc(Informer)
  \/ UpdateFunc(Informer)
  \/ DeleteFunc(Informer)
  \/ Lock(Informer)
  \/ indexName(Informer)
  \/ IndexRequestDo(Informer)
  \/ DeleteRequestDo(Informer)
  \/ Return(Informer)

SpecSync == Init /\ [][SyncNext]_vars

\* The objects that live in a member cluster, as they are now: two objects
\* of member-a whose kinds share an index.
LiveObjects ==
  {[os |-> "member-a", obj |-> o] :
     o \in {o \in Objects : \/ (/\ o.kind = <<"P", "o", "d">>
                                /\ o.uid = "u2" /\ o.spec # "nil")
                             \/ o.kind = <<"P", "O", "D">>}}

\* The resync of an informer hands the current state of a live object to
\* UpdateFunc (lines 126-128), as old and as new value, again and again.
ResyncOf(t, live) ==
  /\ pc[t] = "idle"
  /\ upsert(t, live.os, UpdateArgument(live.obj, live.obj))
  /\ event' = [event EXCEPT ![t] = [handler |-> "UpdateFunc",
                                    old |-> live.obj, new |-> live.obj]]
  /\ UNCHANGED <<delivered, startup>>

Resync(t) == \E live \in LiveObjects : ResyncOf(t, live)

\* The index request for a live object is answered with success.
IndexRequestOk(t, live) ==
  /\ th[t].os = live.os /\ th[t].obj = live.obj
  /\ IndexRequestDo(t)
  /\ th'[t].resp = "ok"

ResyncNext ==
  \E t \in Threads :
    \/ Resync(t)
    \/ Lock(t)
    \/ indexName(t)
    \/ IndexRequestDo(t)
    \/ Return(t)

\* Every live object is delivered again and again; a thread that waits for
\* the mutex gets it (sync.Mutex hands the mutex to a starving waiter), a
\* running handler goes on, every call to the backend returns, and the write
\* for a live object succeeds again and again.
ResyncFairness ==
  /\ \A live \in LiveObjects :
       /\ SF_vars(\E t \in Threads : ResyncOf(t, live))
       /\ SF_vars(\E t \in Threads : IndexRequestOk(t, live))
  /\ \A t \in Threads :
       /\ SF_vars(Lock(t))
       /\ WF_vars(indexName(t))
       /\ WF_vars(IndexRequestDo(t))
       /\ WF_vars(Return(t))

SpecResync == Init /\ [][ResyncNext]_vars /\ ResyncFairness

\* Threads run: a handler that can take its next step takes it, and every
\* call to the backend returns.  A thread that waits for the mutex of an
\* instance needs no more than that here: the deliveries are bounded, so the
\* mutex is free for good at some point.  Nothing is assumed about the
\* deliveries or about the answers of the backend.
HandlerFairness ==
  \A t \in Threads :
    WF_vars(\/ Lock(t)
            \/ indexName(t)
            \/ IndexRequestDo(t)
            \/ DeleteRequestDo(t)
            \/ Return(t))

\* The deliveries of the threads all go to the handlers of one instance.
OneInstance == "member-a"

OneInstanceNext ==
  \E t \in Threads :
    \/ AddFunc(t) /\ th'[t].os = OneInstance
    \/ UpdateFunc(t) /\ th'[t].os = OneInstance
    \/ DeleteFunc(t) /\ th'[t].os = OneInstance
    \/ Lock(t)
    \/ indexName(t)
    \/ IndexRequestDo(t)
    \/ DeleteRequestDo(t)
    \/ Return(t)

SpecFair == Init /\ [][OneInstanceNext]_vars /\ HandlerFairness

\* The process calls NewOpenSearch with some cluster name and configuration,
\* in some world; no event is delivered meanwhile.
InitStartup ==
  /\ indices = [c \in Clusters |-> {}]
  /\ l = [c \in Clusters |-> Unlocked]
  /\ pc = [t \in Threads |-> "idle"]
  /\ th = [t \in Threads |-> NoCall]
  /\ collections = {}
  /\ documents = {}
  /\ lastUpsert = {}
  /\ created = [n \in Names |-> 0]
  /\ delivered = 0
  /\ event = [t \in Threads |-> NoEvent]
  /\ startup \in {Called(c, bsc, env) :
                    c \in Clusters, bsc \in BackendStoreConfigs,
                    env \in Environments}

\* NewOpenSearch, lines 107-118, runs to its return.
NewOpenSearchReturns ==
  /\ startup.pc = "called"
  /\ startup' = Returned(startup)
  /\ UNCHANGED <<indices, l, pc, th, collections, documents, lastUpsert,
                 created, delivered, event>>

SpecStartup == InitStartup /\ [][NewOpenSearchReturns]_vars


(* ------------------------------ helpers ------------------------------- *)

\* The handler of t is an upsert (a delete) of an unstructured object.
IsUpsert(t) == th[t].op = "upsert" /\ th[t].obj.type = "Unstructured"
IsDelete(t) == th[t].op = "delete" /\ th[t].obj.type = "Unstructured"

\* indexName has returned to the handler of t.
Resolved(t) == th[t].err # "none"

\* The handler of t has sent its index request (answered or not).
WriteIssued(t) ==
  \/ pc[t] = "IndexRequest"
  \/ (pc[t] = "return" /\ th[t].resp # "none" /\ th[t].op = "upsert")

\* Number of creation calls the handler of t has issued.
CreateCalls(t) == IF th[t].create = "none" THEN 0 ELSE 1

\* Some document is stored under (index, id).
Stored(docs, index, id) ==
  \E d \in docs : d.Index = index /\ d.DocumentID = id

(* ------------------------------- claims ------------------------------- *)

\* The memo of every instance stays empty and no handler issues a creation
\* call: indexName reaches its creation call only for a name that is already
\* in the memo, and only that path adds names to the memo.
NoCreationCallEver ==
  /\ \A os \in Clusters : indices[os] = {}
  /\ \A t \in Threads : th[t].create = "none" /\ th[t].err \in {"none", "nil"}

\* C1 (as claimed; the code violates it): whenever an index request of an
\* upsert is in flight, the index it names exists in the backend.
C1_WriteOnlyToExistingCollection ==
  \A t \in Threads :
    pc[t] = "IndexRequest" => th[t].indexName \in collections

\* C2 (as claimed; the code violates it): an upsert that succeeded and whose
\* index name was not in the memo when indexName looked it up has issued
\* exactly one creation call.
C2_FirstUpsertCreatesOnce ==
  \A t \in Threads :
    (IsUpsert(t) /\ pc[t] = "return" /\ th[t].resp = "ok" /\ ~th[t].memoHit)
      => CreateCalls(t) = 1

\* C3: under every interleaving no index is created by more than one creation
\* call, no resolution returns an error on an "already exists" answer, and an
\* upsert gives up before its write only when a creation call failed for
\* another reason.
C3_ConcurrentFirstUpserts ==
  /\ \A n \in Names : created[n] <= 1
  /\ \A t \in Threads :
       /\ (Resolved(t) /\ th[t].err # "nil")
            => th[t].create \in {"err: other", "resp: other"}
       /\ (IsUpsert(t) /\ pc[t] = "return" /\ ~WriteIssued(t))
            => th[t].create \in {"err: other", "resp: other"}

\* C3 witness: two threads of one instance are both at their write for the
\* same index name, which neither found in the memo and which the backend did
\* not hold when the first of them resolved it.
C3_Witness ==
  \E t, u \in Threads :
    /\ t # u
    /\ pc[t] = "IndexRequest" /\ pc[u] = "IndexRequest"
    /\ th[t].os = th[u].os /\ th[t].indexName = th[u].indexName
    /\ ~th[t].memoHit /\ ~th[u].memoHit
    /\ ~th[t].existed
    /\ created[th[t].indexName] <= 1

\* C4 (as claimed; the code violates it): when an upsert resolves a name that
\* is not in the memo while the backend already holds that index (the case in
\* which a creation call is answered "already exists"), indexName returns no
\* error, the name is in the memo afterwards, and the upsert goes on to its
\* write.
C4_AlreadyExistsIsSuccess ==
  \A t \in Threads :
    (IsUpsert(t) /\ Resolved(t) /\ th[t].existed /\ ~th[t].memoHit)
      => /\ th[t].err = "nil"
         /\ th[t].indexName \in indices[th[t].os]
         /\ WriteIssued(t)


\* The step in which the request of t's handler is answered with success.
AnsweredOk(t, at) ==
  pc[t] = at /\ pc'[t] = "return" /\ th'[t].resp = "ok"

\* C7: a delete of O that the backend acknowledges leaves no document keyed by
\* O's uid in O's collection, and when there was none (no upsert before it)
\* it leaves the documents as they were; the handler returns either way.
C7_UpsertThenDelete ==
  [][\A t \in Threads :
       AnsweredOk(t, "DeleteRequest") =>
         /\ ~Stored(documents', FormatName(th[t].obj.kind), th[t].obj.uid)
         /\ (~Stored(documents, FormatName(th[t].obj.kind), th[t].obj.uid)
               => documents' = documents)]_vars

\* C7 witness: a delete of O was acknowledged, O's document was stored when
\* the delete arrived, and no document of O's uid is left in O's collection.
C7_Witness ==
  \E t \in Threads :
    /\ IsDelete(t) /\ pc[t] = "return" /\ th[t].resp = "ok" /\ th[t].hadDoc
    /\ ~Stored(documents, FormatName(th[t].obj.kind), th[t].obj.uid)

\* The document the backend holds for an acknowledged upsert.
Holds(d, e) ==
  /\ d.Index = e.Index /\ d.DocumentID = e.uid
  /\ d.Body.kind = e.kind /\ d.Body.spec = Marshal(e.spec)
  /\ d.writer = e.os

\* C8: every index holds at most one document per id; the documents are
\* exactly those of the last acknowledged upsert of each (index, uid), keyed
\* by the uid and with its content; and an upsert whose document is already
\* stored as it is leaves the documents unchanged.
C8_UpsertIdempotentLastWriteWins ==
  /\ [](/\ \A d1, d2 \in documents :
             (d1.Index = d2.Index /\ d1.DocumentID = d2.DocumentID) => d1 = d2
        /\ \A e \in lastUpsert : \E d \in documents : Holds(d, e)
        /\ \A d \in documents : \E e \in lastUpsert : Holds(d, e))
  /\ [][\A t \in Threads :
          (/\ AnsweredOk(t, "IndexRequest")
           /\ \E d \in documents :
                /\ d.Index = FormatName(th[t].obj.kind)
                /\ d.DocumentID = th[t].obj.uid
                /\ d.Body = Doc(th[t].us)
                /\ d.writer = th[t].os)
            => documents' = documents]_vars

\* C8 witness: an upsert was acknowledged for a uid that already had a
\* document with another content, and the one document of that uid now has
\* the content of this upsert.
C8_Witness ==
  \E t \in Threads :
    /\ IsUpsert(t) /\ pc[t] = "return" /\ th[t].resp = "ok" /\ th[t].hadDoc
    /\ \E e \in lastUpsert :
         /\ e.Index = th[t].indexName /\ e.uid = th[t].obj.uid
         /\ e.spec = th[t].obj.spec
    /\ \E d \in documents :
         /\ d.Index = th[t].indexName /\ d.DocumentID = th[t].obj.uid
         /\ d.Body.spec = Marshal(th[t].obj.spec)
    /\ \E u \in Threads :
         /\ u # t /\ IsUpsert(u) /\ pc[u] = "return" /\ th[u].resp = "ok"
         /\ th[u].obj.uid = th[t].obj.uid /\ th[u].obj.kind = th[t].obj.kind
         /\ th[u].obj.spec # th[t].obj.spec

\* C9: every stored document carries exactly one provenance annotation, and
\* its value is the cluster of the instance that wrote the document.
C9_ProvenanceIsWriterCluster ==
  \A d \in documents :
    /\ ~d.Body.annotations.isNil
    /\ <<CacheSourceAnnotationKey, d.writer>> \in d.Body.annotations.kv
    /\ \A p \in d.Body.annotations.kv :
         p[1] = CacheSourceAnnotationKey => p[2] = d.writer

\* C9 witness: documents are stored for an object delivered without
\* annotations and for one delivered with another provenance annotation.
C9_Witness ==
  \E t, u \in Threads :
    /\ IsUpsert(t) /\ pc[t] = "return" /\ th[t].resp = "ok"
    /\ IsUpsert(u) /\ pc[u] = "return" /\ th[u].resp = "ok"
    /\ th[t].obj.annotations.isNil
    /\ \E p \in th[u].obj.annotations.kv :
         p[1] = CacheSourceAnnotationKey /\ p[2] # th[u].os
    /\ Stored(documents, th[t].indexName, th[t].obj.uid)
    /\ Stored(documents, th[u].indexName, th[u].obj.uid)
    /\ th[t].obj.uid # th[u].obj.uid

\* The step in which the handler of t gives up on a backend error.
GivesUp(t) ==
  /\ pc[t] \in {"indexName", "IndexRequest", "DeleteRequest"}
  /\ pc'[t] = "return"
  /\ th'[t].result \in BackendFailures

\* C10: the mutex of an instance is held only by a thread inside indexName,
\* and the step in which a handler gives up on a backend error leaves the
\* memos, the indices and the documents as they were and the mutex free of
\* that thread: the next event finds what it would have found without it.
C10_FailureDoesNotBlock ==
  /\ [](\A t \in Threads, os \in Clusters : l[os] = t => pc[t] = "indexName")
  /\ [][\A t \in Threads :
          GivesUp(t) =>
            /\ indices' = indices /\ collections' = collections
            /\ documents' = documents
            /\ \A os \in Clusters : l'[os] # t]_vars

\* C10 witness: a thread whose last event (object A) was dropped on a backend
\* error has its request for another object B in flight.
C10_Witness ==
  \E t \in Threads :
    /\ th[t].prevFailed # "none"
    /\ pc[t] \in {"IndexRequest", "DeleteRequest"}
    /\ th[t].obj.uid # th[t].prevFailed
    /\ \A os \in Clusters : l[os] # t


\* C11: when the events of a uid are delivered one after the other, the
\* backend holds for that uid what the last delivered event asked for, once
\* its request is acknowledged: after an add or an update exactly one document
\* keyed by the uid, with the content of that event, in the collection of the
\* kind; after a delete no document of the uid in that collection; whatever
\* events came before.
C11_DeliveryOrder ==
  \A t \in Threads :
    (pc[t] = "return" /\ th[t].resp = "ok") =>
      /\ IsUpsert(t) =>
           /\ \E d \in documents :
                /\ d.Index = FormatName(th[t].obj.kind)
                /\ d.DocumentID = th[t].obj.uid
                /\ d.Body.spec = Marshal(th[t].obj.spec)
                /\ d.Body.kind = th[t].obj.kind
                /\ d.writer = th[t].os
           /\ \A d1, d2 \in documents :
                (/\ d1.Index = FormatName(th[t].obj.kind)
                 /\ d2.Index = d1.Index
                 /\ d1.DocumentID = th[t].obj.uid
                 /\ d2.DocumentID = th[t].obj.uid) => d1 = d2
      /\ IsDelete(t) =>
           ~Stored(documents, FormatName(th[t].obj.kind), th[t].obj.uid)

\* C11 witness: the informer's second event, a delete, was acknowledged for a
\* uid whose document an earlier event of the same informer had stored.
C11_Witness ==
  /\ delivered = 2
  /\ IsDelete(Informer) /\ pc[Informer] = "return"
  /\ th[Informer].resp = "ok" /\ th[Informer].hadDoc
  /\ pc["w2"] = "idle" /\ th["w2"] = NoCall
  /\ ~Stored(documents, th[Informer].indexName, th[Informer].obj.uid)


\* The handler of t has just been entered through upsert with obj: the type
\* check is done, the private copy is made, nothing else has happened.
UpsertEntered(t, obj) ==
  /\ th[t].op = "upsert" /\ th[t].obj = obj
  /\ th[t].indexName = NoName /\ th[t].err = "none"
  /\ th[t].create = "none" /\ th[t].resp = "none"
  /\ IF obj.type = "Unstructured"
     THEN /\ pc[t] = "Lock"
          /\ th[t].us = SetAnnotations(obj, th[t].os)
          /\ th[t].result = "none"
     ELSE /\ pc[t] = "return"
          /\ th[t].us = NoObject
          /\ th[t].result = "unexpected type"

\* C12: an update (old, new) enters upsert exactly as an add of new does:
\* with new as its argument, whatever old is; and the step that delivers
\* either of them changes neither the memos nor the backend.  What follows
\* depends on the invocation alone, which keeps no trace of the handler.
C12_UpdateIsAddOfNew ==
  /\ [](\A t \in Threads :
          event[t].handler \in {"AddFunc", "UpdateFunc"}
            => UpsertEntered(t, event[t].new))
  /\ [][\A t \in Threads :
          (event'[t].handler \in {"AddFunc", "UpdateFunc"}
           /\ event[t].handler = "none")
            => /\ indices' = indices /\ l' = l
               /\ collections' = collections /\ documents' = documents]_vars

\* C12 witness: an update whose old value differs from its new value has
\* entered upsert with the new value.
C12_Witness ==
  \E t \in Threads :
    /\ event[t].handler = "UpdateFunc"
    /\ event[t].old # event[t].new
    /\ event[t].new.type = "Unstructured"
    /\ pc[t] = "Lock" /\ th[t].obj = event[t].new

\* C13 (as claimed; the code violates it): when two upserts of one instance
\* for two kinds whose indices did not exist have both been acknowledged,
\* each of the two indices has been created by one creation call.
C13_TwoKindsTwoCollections ==
  \A t, u \in Threads :
    (/\ t # u
     /\ IsUpsert(t) /\ pc[t] = "return" /\ th[t].resp = "ok"
     /\ IsUpsert(u) /\ pc[u] = "return" /\ th[u].resp = "ok"
     /\ th[t].os = th[u].os
     /\ th[t].indexName # th[u].indexName
     /\ ~th[t].existed /\ ~th[u].existed)
      => /\ created[th[t].indexName] = 1
         /\ created[th[u].indexName] = 1


\* The backend holds the current state of the live object: its index exists
\* and holds a document keyed by the uid with the current content.
UpToDate(live) ==
  /\ FormatName(live.obj.kind) \in collections
  /\ \E d \in documents :
       /\ d.Index = FormatName(live.obj.kind)
       /\ d.DocumentID = live.obj.uid
       /\ d.Body.kind = live.obj.kind
       /\ d.Body.spec = Marshal(live.obj.spec)
       /\ d.writer = live.os

\* C14: when the current state of every live object is delivered again and
\* again and the writes for it succeed again and again, then from some time
\* on the index of every live object exists and holds a document keyed by its
\* uid with its current content, whatever failed before.
C14_ResyncConverges ==
  <>[](\A live \in LiveObjects : UpToDate(live))

\* C14 witness: every live object is up to date, and the write that has just
\* been acknowledged is for a uid whose last delivery to the same thread was
\* dropped on a backend error.
C14_Witness ==
  /\ \A live \in LiveObjects : UpToDate(live)
  /\ \E t \in Threads :
       /\ IsUpsert(t) /\ pc[t] = "return" /\ th[t].resp = "ok"
       /\ th[t].prevFailed = th[t].obj.uid


\* C15: whatever the backend answers, every handler invocation returns to
\* the watch layer, and a thread that waits for the mutex of an instance
\* waits for a thread that is inside indexName and will release it.
C15_EveryHandlerReturns ==
  /\ \A t \in Threads : (pc[t] # "idle") ~> (pc[t] = "idle")
  /\ [](\A t \in Threads :
          (pc[t] = "Lock" /\ l[th[t].os] # Unlocked)
            => /\ l[th[t].os] \in Threads \ {t}
               /\ pc[l[th[t].os]] = "indexName")

\* C15 witness: a handler is about to return to the watch layer after a
\* backend error while another thread is inside indexName of the same
\* instance, holding its mutex.
C15_Witness ==
  \E t, u \in Threads :
    /\ t # u
    /\ pc[t] = "return" /\ th[t].result \in BackendFailures
    /\ pc[u] = "indexName" /\ th[u].os = th[t].os /\ l[th[u].os] = u


\* The step in which the backend acknowledges the write or the delete of t.
Acknowledges(t) ==
  AnsweredOk(t, "IndexRequest") \/ AnsweredOk(t, "DeleteRequest")

\* C16 (as claimed; the code violates it): an acknowledged upsert or delete of
\* one cluster's instance leaves every document written by another cluster
\* for an object of the same kind as it was, whatever the uids.
C16_NoCollisionWhateverUIDs ==
  [][\A t \in Threads :
       Acknowledges(t) =>
         \A d \in documents :
           (d.writer # th[t].os /\ d.Body.kind = th[t].obj.kind)
             => d \in documents']_vars

\* C16 (amended): an acknowledged upsert or delete of one cluster's instance
\* leaves every document written by another cluster for an object of the
\* same kind and another uid as it was.
C16_NoCollisionOfDistinctUIDs ==
  [][\A t \in Threads :
       Acknowledges(t) =>
         \A d \in documents :
           (/\ d.writer # th[t].os /\ d.Body.kind = th[t].obj.kind
            /\ d.DocumentID # th[t].obj.uid)
             => d \in documents']_vars

\* C16 witness: the write of one cluster's instance has been acknowledged and
\* the document another cluster wrote for an object of the same kind, name
\* and namespace is stored next to it.
C16_Witness ==
  \E t \in Threads :
    /\ IsUpsert(t) /\ pc[t] = "return" /\ th[t].resp = "ok"
    /\ Stored(documents, th[t].indexName, th[t].obj.uid)
    /\ \E d \in documents :
         /\ d.writer # th[t].os
         /\ d.Index = th[t].indexName
         /\ d.Body.kind = th[t].obj.kind
         /\ d.Body.name = th[t].obj.name
         /\ d.Body.namespace = th[t].obj.namespace
         /\ d.DocumentID # th[t].obj.uid


\* NewOpenSearch was called with no configuration, or with one that lacks the
\* OpenSearch part or names no address.
ConfigMissing(bsc) ==
  bsc.isNil \/ bsc.OpenSearch.isNil \/ bsc.OpenSearch.Addresses = <<>>

\* C17: a call of NewOpenSearch with a missing configuration or an empty
\* address list returns nil and a configuration error, and has by then built
\* no client and made no call over the network.
C17_ConfigErrorBeforeAnyCall ==
  (startup.pc = "returned" /\ ConfigMissing(startup.bsc)) =>
    /\ startup.os = "nil"
    /\ startup.err \in {"cannot init client: opensearch config is nil",
                         "cannot init client: not found opensearch address"}
    /\ startup.calls = <<>>
    /\ ~startup.built

\* C17 witness: NewOpenSearch has returned for a configuration with an empty
\* address list in a world where the secret lookup, the client construction
\* and the connectivity check would all have succeeded.
C17_Witness ==
  /\ startup.pc = "returned"
  /\ ~startup.bsc.isNil /\ ~startup.bsc.OpenSearch.isNil
  /\ startup.bsc.OpenSearch.Addresses = <<>>
  /\ startup.bsc.OpenSearch.SecretRef.Namespace # ""
  /\ startup.bsc.OpenSearch.SecretRef.Name # ""
  /\ ~startup.env.Get.err
  /\ startup.env.NewClient = "ok" /\ startup.env.Info = "ok"
  /\ startup.os = "nil"

\* The credential reference of the configuration is absent.
SecretRefAbsent(bsc) ==
  bsc.OpenSearch.SecretRef.Namespace = "" \/ bsc.OpenSearch.SecretRef.Name = ""

\* C18: when the configuration is there and the credential reference is
\* absent or the secret lookup fails, NewOpenSearch goes on with a client
\* configuration without user and password, asks the secret store only when
\* there is a reference, and returns an instance exactly when the client
\* construction and the connectivity check succeed.
C18_CredentialsNeverFatal ==
  (/\ startup.pc = "returned" /\ ~ConfigMissing(startup.bsc)
   /\ (SecretRefAbsent(startup.bsc) \/ startup.env.Get.err)) =>
    /\ startup.cfg.Username = "" /\ startup.cfg.Password = ""
    /\ startup.cfg.Addresses = startup.bsc.OpenSearch.Addresses
    /\ SecretRefAbsent(startup.bsc)
         => \A i \in 1..Len(startup.calls) : startup.calls[i] # "Secrets.Get"
    /\ (startup.env.NewClient = "ok" /\ startup.env.Info = "ok")
         <=> (startup.err = "nil" /\ startup.os = startup.cluster)
    /\ startup.err \in
         {"nil", "cannot init client: cannot create opensearch client",
          "cannot init client: cannot get opensearch info"}

\* C18 witness: NewOpenSearch has returned an instance although the lookup of
\* the referenced secret failed.
C18_Witness ==
  /\ startup.pc = "returned" /\ ~ConfigMissing(startup.bsc)
  /\ ~SecretRefAbsent(startup.bsc) /\ startup.env.Get.err
  /\ startup.calls = <<"Secrets.Get", "Info">>
  /\ startup.err = "nil" /\ startup.os = startup.cluster


\* The handler of t was handed something that is no unstructured object.
Dropped(t) == th[t].op # "none" /\ th[t].obj.type # "Unstructured"

\* C19: a handler that is handed something else than an unstructured object
\* does nothing but return: it computes no index name, takes no mutex, sends
\* no creation, index or delete request; neither its delivery nor its return
\* changes a memo, an index or a document; and after its return the thread is
\* with the watch layer again as if it had handled no event.
C19_UnexpectedPayloadDropped ==
  /\ [](\A t \in Threads :
          Dropped(t) =>
            /\ pc[t] = "return"
            /\ th[t].result = "unexpected type"
            /\ th[t].indexName = NoName /\ th[t].err = "none"
            /\ th[t].create = "none" /\ th[t].resp = "none"
            /\ \A os \in Clusters : l[os] # t)
  /\ [][\A t \in Threads :
          (Dropped(t)' /\ ~Dropped(t)) \/ (Dropped(t) /\ ~Dropped(t)')
            => /\ indices' = indices /\ l' = l
               /\ collections' = collections /\ documents' = documents
               /\ created' = created
               /\ Dropped(t) => (pc'[t] = "idle" /\ th'[t] = NoCall)]_vars

\* C19 witness: with all events delivered, the handler of a dropped update is
\* about to return while the request of another thread's event is in flight.
C19_Witness ==
  \E t, u \in Threads :
    /\ Dropped(t) /\ event[t].handler = "UpdateFunc"
    /\ pc[t] = "return"
    /\ pc[u] \in {"IndexRequest", "DeleteRequest"}
    /\ delivered = 2

\* The index name of each kind the watch layer delivers, written out.
ExpectedIndexName(kind) ==
  CASE kind = <<"P", "o", "d">> ->
         <<"k","u","b","e","r","n","e","t","e","s","-","p","o","d">>
    [] kind = <<"P", "O", "D">> ->
         <<"k","u","b","e","r","n","e","t","e","s","-","p","o","d">>
    [] kind = <<"J", "o", "b">> ->
         <<"k","u","b","e","r","n","e","t","e","s","-","j","o","b">>

\* C20: the index name a handler computes is "kubernetes-" followed by the
\* kind in lower case, for every object, instance, memo and operation and
\* whatever indexName returns; the request that follows names that index,
\* and so does every stored document.
C20_NameIsFunctionOfKind ==
  /\ \A t \in Threads :
       (th[t].indexName # NoName \/ Resolved(t))
         => th[t].indexName = ExpectedIndexName(th[t].obj.kind)
  /\ \A t \in Threads :
       /\ pc[t] = "IndexRequest"
            => IndexRequest(th[t].indexName, th[t].us).Index
                 = ExpectedIndexName(th[t].obj.kind)
       /\ pc[t] = "DeleteRequest"
            => DeleteRequest(th[t].indexName, th[t].us).Index
                 = ExpectedIndexName(th[t].obj.kind)
  /\ \A d \in documents : d.Index = ExpectedIndexName(d.Body.kind)

\* C20 witness: an upsert by one instance and a delete by the other, for
\* objects whose kinds differ in letter case only and whose uids differ, have
\* resolved the same index name.
C20_Witness ==
  \E t, u \in Threads :
    /\ IsUpsert(t) /\ IsDelete(u)
    /\ Resolved(t) /\ Resolved(u)
    /\ th[t].os # th[u].os
    /\ th[t].obj.kind # th[u].obj.kind
    /\ th[t].obj.uid # th[u].obj.uid
    /\ th[t].indexName = th[u].indexName
    /\ th[t].indexName # NoName


\* The step in which the backend answers the delete request of t.
DeleteAnswered(t) == pc[t] = "DeleteRequest" /\ pc'[t] = "return"

\* C22: a delete handler issues no creation call; no step of a delete
\* handler changes a memo or creates an index; and when the index of the
\* object does not exist, the answer to the delete request leaves the indices
\* and the documents of the backend as they were.
C22_DeleteNeverCreates ==
  /\ [](\A t \in Threads : IsDelete(t) => th[t].create = "none")
  /\ [][\A t \in Threads :
          (IsDelete(t) /\ pc'[t] # pc[t])
            => /\ indices' = indices
               /\ created' = created
               /\ collections' = collections]_vars
  /\ [][\A t \in Threads :
          (DeleteAnswered(t) /\ th[t].indexName \notin collections)
            => documents' = documents]_vars

\* C22 witness: the backend has acknowledged a delete for an object whose
\* index does not exist, and the memo of the instance is as it was.
C22_Witness ==
  \E t \in Threads :
    /\ IsDelete(t) /\ pc[t] = "return" /\ th[t].resp = "ok"
    /\ th[t].indexName \notin collections
    /\ th[t].create = "none"
    /\ indices[th[t].os] = {}


\* The thread is inside the critical section of indexName of instance os:
\* past os.l.Lock(), before the memo test, the creation call, the memo insert
\* and the deferred unlock.
InCriticalSection(t, os) == pc[t] = "indexName" /\ th[t].os = os

\* C23: at any time at most one thread of an instance is between the memo
\* test and the memo insert of indexName, and it is the thread that holds
\* the mutex of the instance; the memo of an instance changes only in a step
\* of that thread, so that no other thread sees it in between; and a
\* creation call is answered only to that thread.
C23_OneCriticalSection ==
  /\ [](\A os \in Clusters : \A t, u \in Threads :
          (InCriticalSection(t, os) /\ InCriticalSection(u, os)) => t = u)
  /\ [](\A os \in Clusters : \A t \in Threads :
          InCriticalSection(t, os) <=> l[os] = t)
  /\ [][\A os \in Clusters :
          (indices'[os] # indices[os] \/ created' # created)
            => \E t \in Threads :
                 /\ InCriticalSection(t, os) /\ l[os] = t
                 /\ pc'[t] # "indexName" /\ l'[os] = Unlocked]_vars

\* C23 witness: a thread is inside the critical section of an instance while
\* the other thread, delivered an event of another kind for the same
\* instance, waits at os.l.Lock().
C23_Witness ==
  \E t, u \in Threads :
    /\ t # u
    /\ InCriticalSection(t, th[t].os) /\ l[th[t].os] = t
    /\ pc[u] = "Lock" /\ th[u].os = th[t].os
    /\ th[u].us.kind # th[t].us.kind


\* The index or delete request of t's handler is in flight.
RequestInFlight(t) == pc[t] \in {"IndexRequest", "DeleteRequest"}

\* C24: a handler sends its one request after indexName has returned, and
\* returns to the watch layer when the request is answered, whatever the
\* answer; an answer that is an error leaves the memos, the indices and the
\* documents as they were, and the event is not delivered again.
C24_AtMostOneRequestNoRetry ==
  /\ [](\A t \in Threads : RequestInFlight(t) => th[t].resp = "none")
  /\ [][\A t \in Threads :
          /\ (RequestInFlight(t)' /\ ~RequestInFlight(t))
                => pc[t] = "indexName"
          /\ (RequestInFlight(t) /\ th'[t] # th[t])
                => /\ pc'[t] = "return"
                   /\ th'[t].resp \in RequestDo
                   /\ delivered' = delivered
                   /\ th'[t].resp # "ok"
                        => /\ indices' = indices
                           /\ collections' = collections
                           /\ documents' = documents
          /\ (pc[t] = "return" /\ pc'[t] # "return") => pc'[t] = "idle"]_vars

\* C24 witness: with every event delivered, the write of one thread and the
\* delete of the other have both failed, and no document is stored.
C24_Witness ==
  \E t, u \in Threads :
    /\ IsUpsert(t) /\ pc[t] = "return" /\ th[t].resp \in {"err", "resp: error"}
    /\ IsDelete(u) /\ pc[u] = "return" /\ th[u].resp = "err"
    /\ delivered = MaxEvents
    /\ documents = {}


\* C25: upsert hands the delivered object back as it got it, annotations
\* included: when the handler has entered, the watch layer's object is the
\* delivered one and only the handler's copy carries the provenance
\* annotation; no later step of the handler, whatever the backend answers,
\* changes the object or the copy.
C25_DeliveredObjectUntouched ==
  /\ [](\A t \in Threads :
          (IsUpsert(t) /\ pc[t] = "Lock")
            => /\ th[t].obj = event[t].new
               /\ th[t].us = SetAnnotations(event[t].new, th[t].os)
               /\ <<CacheSourceAnnotationKey, th[t].os>>
                    \notin th[t].obj.annotations.kv)
  /\ [][\A t \in Threads :
          (IsUpsert(t) /\ pc'[t] # "idle")
            => /\ th'[t].obj = th[t].obj
               /\ th'[t].us = th[t].us]_vars

\* C25 witness: one upsert was acknowledged and one failed; the first object
\* still has no annotation map and the second its old annotation, while both
\* copies carry the provenance annotation of their instance.
C25_Witness ==
  \E t, u \in Threads :
    /\ IsUpsert(t) /\ pc[t] = "return" /\ th[t].resp = "ok"
    /\ th[t].obj.annotations.isNil
    /\ th[t].us.annotations.kv = {<<CacheSourceAnnotationKey, th[t].os>>}
    /\ IsUpsert(u) /\ pc[u] = "return" /\ th[u].resp \in {"err", "resp: error"}
    /\ th[u].obj.annotations.kv = {<<CacheSourceAnnotationKey, "stale">>}
    /\ th[u].us.annotations.kv = {<<CacheSourceAnnotationKey, th[u].os>>}


\* C27: before the first event every memo is empty; a step leaves the memo
\* of an instance as it is or adds one name to it, the index name of the
\* kind whose event a thread is resolving on that instance, and removes
\* none; a memo holds only index names of kinds, and no more names than
\* events were delivered.
C27_MemoOnlyGrows ==
  /\ [](delivered = 0 => \A os \in Clusters : indices[os] = {})
  /\ [](\A os \in Clusters :
          /\ indices[os] \subseteq Names
          /\ Cardinality(indices[os]) <= delivered)
  /\ [][\A os \in Clusters :
          \/ indices'[os] = indices[os]
          \/ \E t \in Threads :
               /\ pc[t] = "indexName" /\ th[t].os = os
               /\ FormatName(th[t].us.kind) \notin indices[os]
               /\ indices'[os] =
                    indices[os] \cup {FormatName(th[t].us.kind)}]_vars

\* C27 witness: every event is delivered, an upsert and a delete on one
\* instance have run to their return through indexName, and the memo of
\* the instance is as it was made.
C27_Witness ==
  \E t, u \in Threads :
    /\ IsUpsert(t) /\ IsDelete(u) /\ th[t].os = th[u].os
    /\ pc[t] = "return" /\ pc[u] = "return"
    /\ th[t].err = "nil" /\ th[u].err = "nil"
    /\ delivered = MaxEvents
    /\ indices[th[t].os] = NewOpenSearch(th[t].os).indices


\* C28: a thread whose index or delete request is in flight holds the mutex
\* of no instance; a thread that waits for the mutex of the same instance
\* meanwhile finds it free, or held by a third thread that is inside
\* indexName, so it can still resolve its collection.
C28_NoLockDuringRequest ==
  \A t \in Threads :
    RequestInFlight(t)
      => /\ \A os \in Clusters : l[os] # t
         /\ \A u \in Threads \ {t} :
              (pc[u] = "Lock" /\ th[u].os = th[t].os)
                => \/ ENABLED Lock(u)
                   \/ \E v \in Threads \ {t, u} :
                        l[th[t].os] = v /\ InCriticalSection(v, th[t].os)

\* C28 witness: the index request of one thread is in flight while another
\* thread, with an object of another kind for the same instance, holds the
\* mutex of that instance inside indexName.
C28_Witness ==
  \E t, u \in Threads :
    /\ t # u /\ th[t].os = th[u].os
    /\ pc[t] = "IndexRequest" /\ th[t].resp = "none"
    /\ InCriticalSection(u, th[u].os) /\ l[th[u].os] = u
    /\ FormatName(th[u].us.kind) # th[t].indexName

====
